---------------------------- MODULE Spec2Model ----------------------------
(***************************************************************************)
(* Leading Edge Model D real-time clock (MM58167 register layout).         *)
(* Model of src/src/device/leading_edge_rtc.c: the 32-byte register file,  *)
(* the once-per-second tick engine, and the port read/write dispatch.      *)
(***************************************************************************)
EXTENDS Integers, Sequences, FiniteSets

(***************************************************************************)
(* Register indices and interrupt bits (leading_edge_rtc.c:46-80).         *)
(***************************************************************************)
MM67_REGS == 32
MM67_MSEC == 0
MM67_HUNTEN == 1
MM67_SEC == 2
MM67_MIN == 3
MM67_HOUR == 4
MM67_DOW == 5
MM67_DOM == 6
MM67_MON == 7
MM67_AL_SEC == 10
MM67_AL_MIN == 11
MM67_AL_HOUR == 12
MM67_AL_DOW == 13
MM67_AL_DOM == 14
MM67_AL_MON == 15
\* 0xc0
MM67_AL_DONTCARE == 192
MM67_ISTAT == 16
MM67_ICTRL == 17
MM67INT_COMPARE == 1
MM67INT_TENTH == 2
MM67INT_SEC == 4
MM67INT_MIN == 8
MM67INT_HOUR == 16
MM67INT_DAY == 32
MM67INT_WEEK == 64
MM67INT_MON == 128
MM67_RSTCTR == 18
MM67_RSTRAM == 19
MM67_GOCMD == 21
\* first port of the block handed to io_sethandler, 0x0300
PortBase == 768
\* dev->year_reg = MM67_AL_DOM
year_reg == 14
\* dev->nvr.irq = -1
NoIrq == -1

Byte == 0..255
RegIdx == 0..(MM67_REGS - 1)

(***************************************************************************)
(* Bounds of the model.                                                    *)
(***************************************************************************)
\* ticks explored in one behaviour
MaxTicks == 2
\* register writes explored in one behaviour
MaxWrites == 1

(***************************************************************************)
(* Bit operations on bytes.                                                *)
(***************************************************************************)
\* x & m # 0 for a single-bit mask m
Bit(x, m) == (x \div m) % 2 = 1

Masks == {1, 2, 4, 8, 16, 32, 64, 128}

\* the set of single-bit masks set in byte x
Bits(x) == {m \in Masks : Bit(x, m)}

RECURSIVE SumSet(_)
SumSet(S) == IF S = {} THEN 0 ELSE LET m == CHOOSE e \in S : TRUE IN m + SumSet(S \ {m})

\* a | b and a & b on bytes
BitOr(a, b) == SumSet(Bits(a) \cup Bits(b))
BitAnd(a, b) == SumSet(Bits(a) \cap Bits(b))

(***************************************************************************)
(* BCD codec (RTC_BCD, RTC_DCB, RTC_BCDINC of the NVR backend header,      *)
(* which is not part of the sources at hand; modelled from section 4.1).   *)
(***************************************************************************)
\* encode: a binary value packed into two decimal nibbles
RTC_BCD(x) == (x % 10) + 16 * (x \div 10)

\* decode: each nibble treated as a decimal digit
RTC_DCB(x) == ((x \div 16) % 16) * 10 + (x % 16)

\* decimal increment with carry between the nibbles; 0x99 + 1 wraps to 0x00
RTC_BCDINC(x, y) == RTC_BCD((RTC_DCB(x) + y) % 100)

(***************************************************************************)
(* Days in a month (nvr_get_days of the NVR backend, modelled from the     *)
(* collaborator contract of section 6: month 1-12, four-digit year).       *)
(***************************************************************************)
LeapYear(year) == (year % 4 = 0) /\ ((year % 100 # 0) \/ (year % 400 = 0))

nvr_get_days(month, year) ==
    IF month = 2 THEN (IF LeapYear(year) THEN 29 ELSE 28)
    ELSE IF month \in {4, 6, 9, 11} THEN 30 ELSE 31

\* Outside month 1..12 the contract promises nothing: any count may come back.
\* Only the comparison RTC_DCB(dom) > days reads it, so the two extremes of an
\* 8-bit BCD decode stand for every outcome.
UnknownDays == {0, 165}


(***************************************************************************)
(* State.                                                                  *)
(***************************************************************************)
VARIABLES
    regs,     \* nvr->regs: the 32 registers
    irq,      \* nvr->irq: the interrupt line, -1 for none
    op,       \* the handler that ran last: "init", "tick", "read", "write",
              \* and at teardown "close", "tick_freed", "fault"
    port,     \* the port of the last read or write
    val,      \* the byte of the last write
    ret,      \* the byte the last read returned
    f,        \* the event value f of the last tick
    raised,   \* the mask the last handler passed to picint, 0 for no call
    tm,       \* the calendar snapshot nvr_time_get returned last
    prev,     \* the registers before the last handler ran
    nticks,   \* ticks so far
    nwrites,  \* writes so far
    dev,      \* the device state: "live", "null" (never allocated), "freed"
    io_bound, \* io_sethandler has registered mm67_read and mm67_write
    nvr_bound \* nvr_init has been handed the reset, start and tick callbacks

vars == <<regs, irq, op, port, val, ret, f, raised, tm, prev, nticks, nwrites,
          dev, io_bound, nvr_bound>>

(***************************************************************************)
(* mm67_chkalrm (leading_edge_rtc.c:120-125).                               *)
(***************************************************************************)
mm67_chkalrm(r, addr) ==
    \/ r[addr - MM67_AL_SEC + MM67_SEC] = r[addr]
    \/ BitAnd(r[addr], MM67_AL_DONTCARE) = MM67_AL_DONTCARE

(***************************************************************************)
(* mm67_time_set (leading_edge_rtc.c:148-170).  t is a struct tm: sec,     *)
(* min, hour, wday 0-6, mday, mon 0-11, year since 1900.                   *)
(***************************************************************************)
\* mutant of mm67_time_set: the host fields are stored in binary, not in BCD
mm67_time_set_Binary(r, t) ==
    LET r1 == [r EXCEPT ![MM67_MSEC] = 0,
                        ![MM67_HUNTEN] = 0,
                        ![MM67_SEC] = t.sec % 256,
                        ![MM67_MIN] = t.min % 256,
                        ![MM67_HOUR] = t.hour % 256,
                        ![MM67_DOW] = (t.wday + 1) % 256,
                        ![MM67_DOM] = t.mday % 256,
                        ![MM67_MON] = (t.mon + 1) % 256]
    IN  IF year_reg >= 0
        THEN [r1 EXCEPT ![year_reg] = ((t.year - 80) % 100) % 256]
        ELSE r1

mm67_time_set(r, t) ==
    LET r1 == [r EXCEPT ![MM67_MSEC] = 0,
                        ![MM67_HUNTEN] = 0,
                        ![MM67_SEC] = RTC_BCD(t.sec) % 256,
                        ![MM67_MIN] = RTC_BCD(t.min) % 256,
                        ![MM67_HOUR] = RTC_BCD(t.hour) % 256,
                        ![MM67_DOW] = RTC_BCD(t.wday + 1) % 256,
                        ![MM67_DOM] = RTC_BCD(t.mday) % 256,
                        ![MM67_MON] = RTC_BCD(t.mon + 1) % 256]
    IN  IF year_reg >= 0
        THEN [r1 EXCEPT ![year_reg] = RTC_BCD((t.year - 80) % 100) % 256]
        ELSE r1

(***************************************************************************)
(* mm67_time_get (leading_edge_rtc.c:127-146).  t0 is the caller's struct  *)
(* tm as handed in: tm_year is assigned only when there is a year slot.    *)
(***************************************************************************)
\* mutant of mm67_time_get: the stored year is taken as years since 1900
mm67_time_get_Base1900(r, t0) ==
    [sec  |-> RTC_DCB(r[MM67_SEC]),
     min  |-> RTC_DCB(r[MM67_MIN]),
     hour |-> RTC_DCB(r[MM67_HOUR]),
     wday |-> RTC_DCB(r[MM67_DOW]) - 1,
     mday |-> RTC_DCB(r[MM67_DOM]),
     mon  |-> RTC_DCB(r[MM67_MON]) - 1,
     year |-> IF year_reg >= 0 THEN RTC_DCB(r[year_reg]) ELSE t0.year]

mm67_time_get(r, t0) ==
    [sec  |-> RTC_DCB(r[MM67_SEC]),
     min  |-> RTC_DCB(r[MM67_MIN]),
     hour |-> RTC_DCB(r[MM67_HOUR]),
     wday |-> RTC_DCB(r[MM67_DOW]) - 1,
     mday |-> RTC_DCB(r[MM67_DOM]),
     mon  |-> RTC_DCB(r[MM67_MON]) - 1,
     year |-> IF year_reg >= 0 THEN RTC_DCB(r[year_reg]) + 80 ELSE t0.year]

(***************************************************************************)
(* mm67_tick (leading_edge_rtc.c:178-268), innermost rollover first.       *)
(* Each stage yields the registers and the event value f.                  *)
(***************************************************************************)
\* mutant of Event: an enabled event is ORed into f, earlier events are kept
Event_Accumulate(r, bit, fv) == IF Bit(r[MM67_ICTRL], bit) THEN BitOr(fv, bit) ELSE fv

\* mutant of Event: the event is recorded whatever the control mask
Event_Ungated(r, bit, fv) == bit

\* if (regs[MM67_ICTRL] & bit) f = bit;
Event(r, bit, fv) == IF Bit(r[MM67_ICTRL], bit) THEN bit ELSE fv

\* mutant of TickYearOf: the stored year is not read, the base year is used
TickYearOf_BaseYear(r) == 80 + 1900

\* year for the days-in-month calculation (lines 223-229)
TickYearOf(r) ==
    (IF year_reg >= 0 THEN RTC_DCB(r[year_reg]) + 80 ELSE 80) + 1900

\* nvr_get_days(mon, year) as the tick calls it; ub is the outcome of a call
\* with a month outside 1..12
TickDays(r, ub) ==
    LET mon == RTC_DCB(r[MM67_MON])
    IN  IF mon \in 1..12 THEN nvr_get_days(mon, TickYearOf(r)) ELSE ub

\* increment year, century rollover (lines 242-248)
TickYear(r) ==
    IF year_reg >= 0
    THEN LET y == RTC_BCDINC(r[year_reg], 1) % 256
         IN  [r EXCEPT ![year_reg] = IF y >= RTC_BCD(100) THEN RTC_BCD(0) ELSE y]
    ELSE r

\* mutant of TickMonth: the year is incremented at every end of month
TickMonth_YearEachMonth(r, fv) ==
    LET r1 == [r EXCEPT ![MM67_DOM] = RTC_BCD(1),
                        ![MM67_MON] = RTC_BCDINC(r[MM67_MON], 1) % 256]
        f1 == Event(r1, MM67INT_MON, fv)
        r2 == IF r1[MM67_MON] > RTC_BCD(12) THEN [r1 EXCEPT ![MM67_MON] = RTC_BCD(1)] ELSE r1
    IN  [regs |-> TickYear(r2), f |-> f1]

\* end of month (lines 233-249)
TickMonth(r, fv) ==
    LET r1 == [r EXCEPT ![MM67_DOM] = RTC_BCD(1),
                        ![MM67_MON] = RTC_BCDINC(r[MM67_MON], 1) % 256]
        f1 == Event(r1, MM67INT_MON, fv)
    IN  IF r1[MM67_MON] > RTC_BCD(12)
        THEN [regs |-> TickYear([r1 EXCEPT ![MM67_MON] = RTC_BCD(1)]), f |-> f1]
        ELSE [regs |-> r1, f |-> f1]

\* end of day (lines 207-250)
TickDay(r, fv, ub) ==
    LET r1 == [r EXCEPT ![MM67_HOUR] = RTC_BCD(0),
                        ![MM67_DOW] = RTC_BCDINC(r[MM67_DOW], 1) % 256]
        f1 == Event(r1, MM67INT_DAY, fv)
        wk == r1[MM67_DOW] > RTC_BCD(7)
        r2 == IF wk THEN [r1 EXCEPT ![MM67_DOW] = RTC_BCD(1)] ELSE r1
        f2 == IF wk THEN Event(r2, MM67INT_WEEK, f1) ELSE f1
        r3 == [r2 EXCEPT ![MM67_DOM] = RTC_BCDINC(r2[MM67_DOM], 1) % 256]
    IN  IF RTC_DCB(r3[MM67_DOM]) > TickDays(r3, ub)
        THEN TickMonth(r3, f2)
        ELSE [regs |-> r3, f |-> f2]

\* mutant of TickHour: the day ends past hour 24 instead of at hour 24
TickHour_RollPast24(r, fv, ub) ==
    LET r1 == [r EXCEPT ![MM67_MIN] = RTC_BCD(0),
                        ![MM67_HOUR] = RTC_BCDINC(r[MM67_HOUR], 1) % 256]
        f1 == Event(r1, MM67INT_HOUR, fv)
    IN  IF r1[MM67_HOUR] > RTC_BCD(24)
        THEN TickDay(r1, f1, ub)
        ELSE [regs |-> r1, f |-> f1]

\* end of hour (lines 199-251)
TickHour(r, fv, ub) ==
    LET r1 == [r EXCEPT ![MM67_MIN] = RTC_BCD(0),
                        ![MM67_HOUR] = RTC_BCDINC(r[MM67_HOUR], 1) % 256]
        f1 == Event(r1, MM67INT_HOUR, fv)
    IN  IF r1[MM67_HOUR] >= RTC_BCD(24)
        THEN TickDay(r1, f1, ub)
        ELSE [regs |-> r1, f |-> f1]

\* mutant of TickMin: the minute rolls over past 60 instead of at 60
TickMin_RollPast60(r, fv, ub) ==
    LET r1 == [r EXCEPT ![MM67_SEC] = RTC_BCD(0),
                        ![MM67_MIN] = RTC_BCDINC(r[MM67_MIN], 1) % 256]
        f1 == Event(r1, MM67INT_MIN, fv)
    IN  IF r1[MM67_MIN] > RTC_BCD(60)
        THEN TickHour(r1, f1, ub)
        ELSE [regs |-> r1, f |-> f1]

\* end of minute (lines 192-252)
TickMin(r, fv, ub) ==
    LET r1 == [r EXCEPT ![MM67_SEC] = RTC_BCD(0),
                        ![MM67_MIN] = RTC_BCDINC(r[MM67_MIN], 1) % 256]
        f1 == Event(r1, MM67INT_MIN, fv)
    IN  IF r1[MM67_MIN] >= RTC_BCD(60)
        THEN TickHour(r1, f1, ub)
        ELSE [regs |-> r1, f |-> f1]

\* mutant of TickTime: the seconds are incremented in binary, not in decimal
TickTime_BinaryInc(r, ub) ==
    LET r1 == [r EXCEPT ![MM67_SEC] = (r[MM67_SEC] + 1) % 256]
        f1 == Event(r1, MM67INT_SEC, 0)
    IN  IF r1[MM67_SEC] >= RTC_BCD(60)
        THEN TickMin(r1, f1, ub)
        ELSE [regs |-> r1, f |-> f1]

\* the time update (lines 184-253)
TickTime(r, ub) ==
    LET r1 == [r EXCEPT ![MM67_SEC] = RTC_BCDINC(r[MM67_SEC], 1) % 256]
        f1 == Event(r1, MM67INT_SEC, 0)
    IN  IF r1[MM67_SEC] >= RTC_BCD(60)
        THEN TickMin(r1, f1, ub)
        ELSE [regs |-> r1, f |-> f1]

\* mutant of TickAlarmMatch: the month setpoint is not compared
TickAlarmMatch_NoMonth(r) ==
    /\ mm67_chkalrm(r, MM67_AL_SEC)
    /\ mm67_chkalrm(r, MM67_AL_MIN)
    /\ mm67_chkalrm(r, MM67_AL_HOUR)
    /\ mm67_chkalrm(r, MM67_AL_DOM)

\* the alarm fields the tick compares (lines 256-258)
TickAlarmMatch(r) ==
    /\ mm67_chkalrm(r, MM67_AL_SEC)
    /\ mm67_chkalrm(r, MM67_AL_MIN)
    /\ mm67_chkalrm(r, MM67_AL_HOUR)
    /\ mm67_chkalrm(r, MM67_AL_DOM)
    /\ mm67_chkalrm(r, MM67_AL_MON)

\* f after the alarm check (lines 255-260)
TickCompare(r, fv) ==
    IF TickAlarmMatch(r) THEN BitOr(fv, MM67INT_COMPARE) ELSE fv

\* mutant of TickStatus: recording an event also disarms the control mask
TickStatus_ClearsControl(r, fv) ==
    IF fv # 0
    THEN [r EXCEPT ![MM67_ISTAT] = BitOr(r[MM67_ISTAT], fv), ![MM67_ICTRL] = 0]
    ELSE r

\* mutant of TickStatus: the status is assigned, not ORed
TickStatus_Assign(r, fv) ==
    IF fv # 0 THEN [r EXCEPT ![MM67_ISTAT] = fv] ELSE r

\* regs[MM67_ISTAT] |= f (lines 263-264)
TickStatus(r, fv) ==
    IF fv # 0 THEN [r EXCEPT ![MM67_ISTAT] = BitOr(r[MM67_ISTAT], fv)] ELSE r

\* mutant of TickRaise: the line is raised on every tick, event or not
TickRaise_EveryTick(line, fv) ==
    IF line # -1 THEN 2 ^ line ELSE 0

\* picint(1 << nvr->irq) (lines 263-266): the mask raised, 0 for no call
TickRaise(line, fv) ==
    IF fv # 0 /\ line # -1 THEN 2 ^ line ELSE 0

\* the month values for which the days-in-month call is outside its contract
DaysOutcomes(r) ==
    IF RTC_DCB(r[MM67_MON]) \in 1..12 THEN {0} ELSE UnknownDays

Tick ==
    /\ nvr_bound
    /\ dev = "live"
    /\ nticks < MaxTicks
    /\ \E ub \in DaysOutcomes(regs) :
         LET t  == TickTime(regs, ub)
             fv == TickCompare(t.regs, t.f)
         IN  /\ regs' = TickStatus(t.regs, fv)
             /\ f' = fv
             /\ raised' = TickRaise(irq, fv)
    /\ op' = "tick"
    /\ prev' = regs
    /\ port' = 0
    /\ val' = 0
    /\ ret' = 0
    /\ nticks' = nticks + 1
    /\ UNCHANGED <<irq, tm, nwrites, dev, io_bound, nvr_bound>>

(***************************************************************************)
(* mm67_start and mm67_reset (leading_edge_rtc.c:270-300).  t is the       *)
(* calendar snapshot nvr_time_get hands back.                              *)
(***************************************************************************)
\* mutant of mm67_start: starting the clock also clears the interrupt status
mm67_start_ClearsStatus(r, t) == mm67_time_set([r EXCEPT ![MM67_ISTAT] = 0], t)

mm67_start(r, t) == mm67_time_set(r, t)

\* mutant of mm67_reset: the registers are reseeded without being cleared
mm67_reset_NoClear(r, t) == mm67_start(r, t)

mm67_reset(r, t) == mm67_start([i \in DOMAIN r |-> 0], t)

(***************************************************************************)
(* Port decode, mm67_read and mm67_write (leading_edge_rtc.c:302-361).     *)
(***************************************************************************)
\* mutant of RegOf: the index is masked with 0x3f, one bit too many
RegOf_Mask3f(p) == (p - PortBase) % 64

\* uint8_t reg = (port - 0x300) & 0x1f
RegOf(p) == (p - PortBase) % 32

mm67_read(r, p) ==
    LET reg == RegOf(p)
    IN  IF reg < MM67_REGS THEN r[reg] ELSE 255

\* mutant of mm67_write: a status write clears only the bits written as 1
mm67_write_ClearWritten(r, p, v, t) ==
    LET reg == RegOf(p)
    IN  IF reg >= MM67_REGS THEN r
        ELSE IF reg = MM67_RSTCTR THEN [r EXCEPT ![MM67_MSEC] = 0, ![MM67_HUNTEN] = 0]
        ELSE IF reg = MM67_RSTRAM THEN mm67_reset(r, t)
        ELSE IF reg = MM67_GOCMD THEN mm67_start(r, t)
        ELSE IF reg = MM67_ISTAT THEN [r EXCEPT ![reg] = BitAnd(r[reg], 255 - v)]
        ELSE IF reg = MM67_ICTRL THEN [r EXCEPT ![reg] = v]
        ELSE [r EXCEPT ![reg] = v]

\* mutant of mm67_write: the default case stores a byte only if it is valid BCD
mm67_write_ValidateBCD(r, p, v, t) ==
    LET reg == RegOf(p)
    IN  IF reg >= MM67_REGS THEN r
        ELSE IF reg = MM67_RSTCTR THEN [r EXCEPT ![MM67_MSEC] = 0, ![MM67_HUNTEN] = 0]
        ELSE IF reg = MM67_RSTRAM THEN mm67_reset(r, t)
        ELSE IF reg = MM67_GOCMD THEN mm67_start(r, t)
        ELSE IF reg = MM67_ISTAT THEN [r EXCEPT ![reg] = 0]
        ELSE IF reg = MM67_ICTRL THEN [r EXCEPT ![reg] = v]
        ELSE IF v % 16 < 10 /\ v \div 16 < 10 THEN [r EXCEPT ![reg] = v]
        ELSE r

\* mutant of mm67_write: reset counters zeroes the seconds register as well
mm67_write_RstSeconds(r, p, v, t) ==
    LET reg == RegOf(p)
    IN  IF reg >= MM67_REGS THEN r
        ELSE IF reg = MM67_RSTCTR
             THEN [r EXCEPT ![MM67_MSEC] = 0, ![MM67_HUNTEN] = 0, ![MM67_SEC] = 0]
        ELSE IF reg = MM67_RSTRAM THEN mm67_reset(r, t)
        ELSE IF reg = MM67_GOCMD THEN mm67_start(r, t)
        ELSE IF reg = MM67_ISTAT THEN [r EXCEPT ![reg] = 0]
        ELSE IF reg = MM67_ICTRL THEN [r EXCEPT ![reg] = v]
        ELSE [r EXCEPT ![reg] = v]

\* mutant of mm67_write: indices beyond the go command are not stored
mm67_write_IgnoreHigh(r, p, v, t) ==
    LET reg == RegOf(p)
    IN  IF reg >= MM67_REGS \/ reg > MM67_GOCMD THEN r
        ELSE IF reg = MM67_RSTCTR THEN [r EXCEPT ![MM67_MSEC] = 0, ![MM67_HUNTEN] = 0]
        ELSE IF reg = MM67_RSTRAM THEN mm67_reset(r, t)
        ELSE IF reg = MM67_GOCMD THEN mm67_start(r, t)
        ELSE IF reg = MM67_ISTAT THEN [r EXCEPT ![reg] = 0]
        ELSE IF reg = MM67_ICTRL THEN [r EXCEPT ![reg] = v]
        ELSE [r EXCEPT ![reg] = v]

mm67_write(r, p, v, t) ==
    LET reg == RegOf(p)
    IN  IF reg >= MM67_REGS THEN r
        ELSE IF reg = MM67_RSTCTR THEN [r EXCEPT ![MM67_MSEC] = 0, ![MM67_HUNTEN] = 0]
        ELSE IF reg = MM67_RSTRAM THEN mm67_reset(r, t)
        ELSE IF reg = MM67_GOCMD THEN mm67_start(r, t)
        ELSE IF reg = MM67_ISTAT THEN [r EXCEPT ![reg] = 0]
        ELSE IF reg = MM67_ICTRL THEN [r EXCEPT ![reg] = v]
        ELSE [r EXCEPT ![reg] = v]

(***************************************************************************)
(* Inputs: host calendar snapshots, ports read, bytes written.             *)
(***************************************************************************)
HostTime(y, mo, d, wd, h, mi, s) ==
    [sec |-> s, min |-> mi, hour |-> h, wday |-> wd, mday |-> d, mon |-> mo - 1,
     year |-> y - 1900]

\* <<year, month, day, weekday 0-6>>
HostDates ==
    { <<1980, 2, 28, 4>>,
      <<1980, 2, 29, 5>>,
      <<1981, 2, 28, 6>>,
      <<2000, 2, 28, 1>>,
      <<2000, 2, 29, 2>>,
      <<1983, 12, 31, 6>>,
      <<2079, 12, 31, 0>>,
      <<1999, 12, 31, 5>>,
      <<1985, 4, 30, 2>>,
      <<1990, 6, 15, 5>>,
      <<1988, 10, 1, 6>>,
      <<1987, 1, 31, 6>>,
      <<1986, 8, 2, 6>> }

\* <<hour, minute, second>>
HostClocks ==
    { <<23, 59, 59>>, <<23, 59, 58>>, <<12, 59, 59>>, <<1, 0, 59>>, <<10, 20, 30>> }

HostTimes ==
    { HostTime(d[1], d[2], d[3], d[4], c[1], c[2], c[3]) : d \in HostDates, c \in HostClocks }

\* the snapshots a reset-RAM or go command written by software finds
CmdTimes ==
    { HostTime(1983, 12, 31, 6, 23, 59, 59),
      HostTime(1990, 6, 15, 5, 12, 59, 58) }

ReadPorts ==
    { PortBase + MM67_SEC, PortBase + MM67_ISTAT, PortBase + 32 + MM67_MSEC }

\* <<port, byte>> pairs software writes
WriteCmds ==
    { <<PortBase + MM67_ISTAT, 0>>,
      <<PortBase + MM67_SEC, 153>>,
      <<PortBase + MM67_ISTAT, 255>>,
      <<PortBase + MM67_ICTRL, 12>>,
      <<PortBase + MM67_ICTRL, 255>>,
      <<PortBase + MM67_SEC, 255>>,
      <<PortBase + MM67_AL_DOW, 192>>,
      <<PortBase + MM67_AL_DOM, 192>>,
      <<PortBase + MM67_AL_MON, 1>>,
      <<PortBase + MM67_RSTCTR, 1>>,
      <<PortBase + MM67_RSTRAM, 1>>,
      <<PortBase + MM67_GOCMD, 1>>,
      <<PortBase + 22, 90>>,
      <<PortBase + 32 + MM67_MSEC, 7>> }

(***************************************************************************)
(* Handlers.                                                               *)
(***************************************************************************)
\* mutant of Read: reading the status register clears it
Read_ClearsStatus ==
    \E p \in ReadPorts :
        /\ io_bound
        /\ ret' = mm67_read(regs, p)
        /\ regs' = IF RegOf(p) = MM67_ISTAT THEN [regs EXCEPT ![MM67_ISTAT] = 0] ELSE regs
        /\ port' = p
        /\ op' = "read"
        /\ prev' = regs
        /\ val' = 0
        /\ f' = 0
        /\ raised' = 0
        /\ UNCHANGED <<irq, tm, nticks, nwrites, dev, io_bound, nvr_bound>>

Read ==
    \E p \in ReadPorts :
        /\ io_bound
        /\ ret' = mm67_read(regs, p)
        /\ port' = p
        /\ op' = "read"
        /\ prev' = regs
        /\ val' = 0
        /\ f' = 0
        /\ raised' = 0
        /\ UNCHANGED <<regs, irq, tm, nticks, nwrites, dev, io_bound, nvr_bound>>

Write ==
    /\ io_bound
    /\ nwrites < MaxWrites
    /\ \E c \in WriteCmds :
         \E t \in (IF RegOf(c[1]) \in {MM67_RSTRAM, MM67_GOCMD} THEN CmdTimes ELSE {tm}) :
            /\ regs' = mm67_write(regs, c[1], c[2], t)
            /\ port' = c[1]
            /\ val' = c[2]
            /\ tm' = t
    /\ op' = "write"
    /\ prev' = regs
    /\ ret' = 0
    /\ f' = 0
    /\ raised' = 0
    /\ nwrites' = nwrites + 1
    /\ UNCHANGED <<irq, nticks, dev, io_bound, nvr_bound>>

(***************************************************************************)
(* Spec: the device as leading_edge_rtc_init leaves it (lines 364-397):    *)
(* zeroed by calloc, irq -1, then reset by the NVR backend, which seeds    *)
(* the time registers from the host calendar.                              *)
(***************************************************************************)
Zero == [i \in RegIdx |-> 0]

\* mutant of InitFailed: the port handlers are registered before calloc is tested
InitFailed_HandlersFirst ==
    /\ dev = "null"
    /\ io_bound = TRUE
    /\ nvr_bound = FALSE
    /\ tm \in HostTimes
    /\ regs = Zero
    /\ irq = NoIrq
    /\ op = "init"
    /\ port = 0
    /\ val = 0
    /\ ret = 0
    /\ f = 0
    /\ raised = 0
    /\ prev = regs
    /\ nticks = 0
    /\ nwrites = 0

\* calloc fails: NULL is returned before io_sethandler and nvr_init (lines
\* 372-374).  There is no device state; regs and irq stand as zeroes.
InitFailed ==
    /\ dev = "null"
    /\ io_bound = FALSE
    /\ nvr_bound = FALSE
    /\ tm \in HostTimes
    /\ regs = Zero
    /\ irq = NoIrq
    /\ op = "init"
    /\ port = 0
    /\ val = 0
    /\ ret = 0
    /\ f = 0
    /\ raised = 0
    /\ prev = regs
    /\ nticks = 0
    /\ nwrites = 0

\* calloc succeeds: callbacks bound, handlers registered, reset by nvr_init
InitDone ==
    /\ dev = "live"
    /\ io_bound = TRUE
    /\ nvr_bound = TRUE
    /\ tm \in HostTimes
    /\ regs = mm67_reset(Zero, tm)
    /\ irq = NoIrq
    /\ op = "init"
    /\ port = 0
    /\ val = 0
    /\ ret = 0
    /\ f = 0
    /\ raised = 0
    /\ prev = regs
    /\ nticks = 0
    /\ nwrites = 0

Init == InitDone \/ InitFailed

Next == Tick \/ Read \/ Write

Spec == Init /\ [][Next]_vars

(***************************************************************************)
(* SpecLife: the device through teardown.  leading_edge_rtc_close (lines   *)
(* 399-412) removes the port handlers and frees the device state; it makes *)
(* no call into the NVR backend, which was handed &dev->nvr by nvr_init.   *)
(***************************************************************************)
Close ==
    /\ dev = "live"
    /\ dev' = "freed"
    /\ io_bound' = FALSE
    /\ op' = "close"
    /\ prev' = regs
    /\ port' = 0
    /\ val' = 0
    /\ ret' = 0
    /\ f' = 0
    /\ raised' = 0
    /\ UNCHANGED <<regs, irq, tm, nticks, nwrites, nvr_bound>>

\* what the freed block may hold when it is read again: the old registers, or
\* the bytes of whoever reused the memory (all ones standing for them)
FreedImages(r) == {r, [i \in RegIdx |-> 255]}

\* the backend's tick callback on the freed device state: mm67_tick runs on
\* whatever the block holds, or the access faults and the process ends
TickFreed ==
    /\ nvr_bound
    /\ dev = "freed"
    /\ nticks < MaxTicks
    /\ \/ /\ \E m \in FreedImages(regs) :
                \E ub \in DaysOutcomes(m) :
                   LET t  == TickTime(m, ub)
                       fv == TickCompare(t.regs, t.f)
                   IN  /\ regs' = TickStatus(t.regs, fv)
                       /\ f' = fv
                       /\ raised' = TickRaise(irq, fv)
          /\ op' = "tick_freed"
          /\ UNCHANGED nvr_bound
       \/ /\ op' = "fault"
          /\ nvr_bound' = FALSE
          /\ f' = 0
          /\ raised' = 0
          /\ UNCHANGED regs
    /\ prev' = regs
    /\ port' = 0
    /\ val' = 0
    /\ ret' = 0
    /\ nticks' = nticks + 1
    /\ UNCHANGED <<irq, tm, nwrites, dev, io_bound>>

NextLife == Tick \/ Read \/ Write \/ Close \/ TickFreed

SpecLife == Init /\ [][NextLife]_vars

(***************************************************************************)
(* SpecRegs: the device after software has programmed it.  Every byte of   *)
(* the alarm block and of interrupt control is one a register write can    *)
(* store (mm67_write, default and MM67_ICTRL cases), and nvr->irq ranges   *)
(* over "no line" and a line, the two cases mm67_tick tells apart.         *)
(***************************************************************************)
AlarmIdx == {MM67_AL_SEC, MM67_AL_MIN, MM67_AL_HOUR, MM67_AL_DOW, MM67_AL_MON}

\* alarm setpoints: all don't-care, one field concrete, or all concrete
AlarmBlocks ==
    { a \in [AlarmIdx -> {0, 1, 3, MM67_AL_DONTCARE}] :
        \/ /\ Cardinality({i \in AlarmIdx : a[i] # MM67_AL_DONTCARE}) <= 1
           /\ \A i \in AlarmIdx : a[i] \in {0, MM67_AL_DONTCARE}
        \/ /\ a[MM67_AL_SEC] = 0 /\ a[MM67_AL_MIN] = 0 /\ a[MM67_AL_HOUR] = 0
           /\ a[MM67_AL_DOW] \in {0, 1} /\ a[MM67_AL_MON] = 3 }

ProgTimes ==
    { HostTime(1983, 12, 31, 6, 23, 59, 59),
      HostTime(1981, 2, 28, 6, 23, 59, 59),
      HostTime(1990, 6, 15, 5, 12, 59, 58) }

\* interrupt control masks: none, second and minute, all
ProgMasks == {0, 12, 255}

IrqLines == {NoIrq, 5}

\* bytes software left in the two sub-second registers: none, or 0x25 in both
\* (programmed only next to the all-don't-care alarm and the 0x0C mask)
ProgSub == {0, 37}

ProgRegs(t, a, m, dc) ==
    LET r == mm67_reset(Zero, t)
    IN  [i \in RegIdx |->
            IF i \in AlarmIdx THEN a[i]
            ELSE IF i = MM67_ICTRL THEN m
            ELSE IF i = MM67_AL_DOM /\ dc THEN MM67_AL_DONTCARE
            ELSE r[i]]

InitRegs ==
    /\ tm \in ProgTimes
    /\ \E a \in AlarmBlocks, m \in ProgMasks, dc \in BOOLEAN, ss \in ProgSub :
          /\ ss # 0 => (m = 12 /\ ~dc /\ \A i \in AlarmIdx : a[i] = MM67_AL_DONTCARE)
          /\ regs = [ProgRegs(tm, a, m, dc) EXCEPT ![MM67_MSEC] = ss, ![MM67_HUNTEN] = ss]
    /\ irq \in IrqLines
    /\ dev = "live"
    /\ io_bound = TRUE
    /\ nvr_bound = TRUE
    /\ op = "init"
    /\ port = 0
    /\ val = 0
    /\ ret = 0
    /\ f = 0
    /\ raised = 0
    /\ prev = regs
    /\ nticks = 0
    /\ nwrites = 0

SpecRegs == InitRegs /\ [][Next]_vars

(***************************************************************************)
(* Reference calendar, independent of the tick engine: a register file     *)
(* read as a calendar instant, numbered by day since 1980-01-01 and by     *)
(* second of the day.                                                      *)
(***************************************************************************)
ValidBCD(b) == (b \div 16) <= 9 /\ (b % 16) <= 9

BcdValue(b) == 10 * (b \div 16) + (b % 16)

BcdOf(n) == 16 * (n \div 10) + (n % 10)

CalLeap(y) == (y % 4 = 0 /\ y % 100 # 0) \/ y % 400 = 0

CalMonthLen(m, y) ==
    IF m = 2 /\ CalLeap(y) THEN 29
    ELSE <<31, 28, 31, 30, 31, 30, 31, 31, 30, 31, 30, 31>>[m]

CalYear(r) == 1980 + BcdValue(r[year_reg])

ValidInstant(r) ==
    /\ \A i \in {MM67_SEC, MM67_MIN, MM67_HOUR, MM67_DOW, MM67_DOM, MM67_MON, year_reg} :
          ValidBCD(r[i])
    /\ BcdValue(r[MM67_SEC]) <= 59
    /\ BcdValue(r[MM67_MIN]) <= 59
    /\ BcdValue(r[MM67_HOUR]) <= 23
    /\ BcdValue(r[MM67_DOW]) \in 1..7
    /\ BcdValue(r[MM67_MON]) \in 1..12
    /\ BcdValue(r[MM67_DOM]) \in 1..CalMonthLen(BcdValue(r[MM67_MON]), CalYear(r))

RECURSIVE DaysBeforeYear(_)
DaysBeforeYear(y) ==
    IF y <= 1980 THEN 0
    ELSE DaysBeforeYear(y - 1) + (IF CalLeap(y - 1) THEN 366 ELSE 365)

RECURSIVE DaysBeforeMonth(_, _)
DaysBeforeMonth(m, y) ==
    IF m <= 1 THEN 0 ELSE DaysBeforeMonth(m - 1, y) + CalMonthLen(m - 1, y)

\* days from 1980-01-01 to the date in r
DayIndex(r) ==
    DaysBeforeYear(CalYear(r)) + DaysBeforeMonth(BcdValue(r[MM67_MON]), CalYear(r))
        + BcdValue(r[MM67_DOM]) - 1

\* seconds since midnight
SecOfDay(r) ==
    3600 * BcdValue(r[MM67_HOUR]) + 60 * BcdValue(r[MM67_MIN]) + BcdValue(r[MM67_SEC])

\* the days the two-digit year can tell apart: 1980-01-01 up to 2080-01-01
DaysInCentury == DaysBeforeYear(2080)

LastSecond(r) == SecOfDay(r) = 86399

TickFromValid == op = "tick" /\ ValidInstant(prev)

(***************************************************************************)
(* C1: a tick from a valid calendar instant leaves the time fields at the  *)
(* BCD encoding of the instant one second later: within the day the second *)
(* of the day grows by one and the date and day-of-week stay; at 23:59:59  *)
(* the time becomes 00:00:00, the date is the next day (the two-digit year *)
(* wrapping 99 to 00) and day-of-week advances, 7 wrapping to 1.           *)
(***************************************************************************)
C1_TickAdvancesOneSecond ==
    TickFromValid =>
        /\ ValidInstant(regs)
        /\ IF LastSecond(prev)
           THEN /\ SecOfDay(regs) = 0
                /\ DayIndex(regs) = (DayIndex(prev) + 1) % DaysInCentury
                /\ BcdValue(regs[MM67_DOW]) = (BcdValue(prev[MM67_DOW]) % 7) + 1
           ELSE /\ SecOfDay(regs) = SecOfDay(prev) + 1
                /\ DayIndex(regs) = DayIndex(prev)
                /\ regs[MM67_DOW] = prev[MM67_DOW]

\* 23:59:59 on a day-of-week 7 has ticked over to 00:00:00, day-of-week 1
C1_Witness ==
    /\ TickFromValid
    /\ LastSecond(prev)
    /\ prev[MM67_DOW] = 7
    /\ regs[MM67_DOW] = 1
    /\ regs[MM67_DOM] # prev[MM67_DOM]

(***************************************************************************)
(* C2: at 23:59:59 in February, day 28 becomes day 29 and day 29 becomes   *)
(* March 1 when 1980 + stored year is a leap year; day 28 becomes March 1  *)
(* when it is not.  Month and year are those held before the tick.         *)
(***************************************************************************)
C2_FebruaryRollover ==
    (TickFromValid /\ LastSecond(prev) /\ prev[MM67_MON] = 2) =>
        IF CalLeap(CalYear(prev))
        THEN /\ prev[MM67_DOM] = BcdOf(28) =>
                   regs[MM67_DOM] = BcdOf(29) /\ regs[MM67_MON] = 2
             /\ prev[MM67_DOM] = BcdOf(29) =>
                   regs[MM67_DOM] = 1 /\ regs[MM67_MON] = 3
        ELSE prev[MM67_DOM] = BcdOf(28) =>
                   regs[MM67_DOM] = 1 /\ regs[MM67_MON] = 3

\* February 28 of a leap year has ticked over to February 29
C2_Witness ==
    /\ TickFromValid
    /\ LastSecond(prev)
    /\ prev[MM67_MON] = 2
    /\ prev[MM67_DOM] = BcdOf(28)
    /\ CalLeap(CalYear(prev))
    /\ regs[MM67_DOM] = BcdOf(29)

\* February 28 of a common year has ticked over to March 1
C2_WitnessCommon ==
    /\ TickFromValid
    /\ LastSecond(prev)
    /\ prev[MM67_MON] = 2
    /\ prev[MM67_DOM] = BcdOf(28)
    /\ ~CalLeap(CalYear(prev))
    /\ regs[MM67_MON] = 3

(***************************************************************************)
(* C3: a tick at December 31 23:59:59 wraps the month to 1 and increments  *)
(* the stored year in BCD, 0x99 becoming 0x00; a tick from any other valid *)
(* instant leaves register 14 alone, and whenever a tick changes register  *)
(* 14 the month register has been wrapped to 1.                            *)
(***************************************************************************)
YearEnd(r) ==
    LastSecond(r) /\ r[MM67_MON] = BcdOf(12) /\ r[MM67_DOM] = BcdOf(31)

C3_YearIncrement ==
    /\ TickFromValid =>
          IF YearEnd(prev)
          THEN /\ regs[MM67_MON] = 1
               /\ regs[year_reg] = BcdOf((BcdValue(prev[year_reg]) + 1) % 100)
          ELSE regs[year_reg] = prev[year_reg]
    /\ (op = "tick" /\ regs[year_reg] # prev[year_reg]) =>
          regs[MM67_MON] = 1 /\ prev[MM67_MON] # 1

\* the century wrap: stored year 0x99 at December 31 23:59:59 became 0x00
C3_Witness ==
    /\ TickFromValid
    /\ YearEnd(prev)
    /\ prev[year_reg] = 153
    /\ regs[year_reg] = 0
    /\ regs[MM67_MON] = 1

(***************************************************************************)
(* Alarm and interrupt claims.                                             *)
(***************************************************************************)
AlarmRegs ==
    {MM67_AL_SEC, MM67_AL_MIN, MM67_AL_HOUR, MM67_AL_DOW, MM67_AL_DOM, MM67_AL_MON}

DontCare(b) == Bit(b, 64) /\ Bit(b, 128)

\* alarm register a against the current-time register of the same field
FieldMatches(r, a) == r[a - 8] = r[a] \/ DontCare(r[a])

\* C4: with every alarm register holding the don't-care sentinel 0xC0 when the
\* tick starts, the tick sets the compare bit in interrupt status, whatever the
\* control mask and the current time.
C4_DontCareAlwaysCompares ==
    (op = "tick" /\ \A a \in AlarmRegs : prev[a] = MM67_AL_DONTCARE) =>
        Bit(regs[MM67_ISTAT], MM67INT_COMPARE)

\* C5: a tick records the compare event exactly when every alarm field (sec,
\* min, hour, day-of-week, day-of-month, month) equals its current-time register
\* after the time update or is don't-care.
C5_CompareIffAllFieldsMatch ==
    op = "tick" =>
        (Bit(f, MM67INT_COMPARE) <=> \A a \in AlarmRegs : FieldMatches(regs, a))

\* C6: a write of any byte to index 16 leaves the status register 0x00 and every
\* other register as it was; a read of index 16 returns the stored status; and
\* the status leaves 0x00 only in a tick that recorded an event.
C6_StatusWriteClears ==
    /\ (op = "write" /\ RegOf(port) = MM67_ISTAT) =>
          /\ regs[MM67_ISTAT] = 0
          /\ \A i \in RegIdx \ {MM67_ISTAT} : regs[i] = prev[i]
    /\ (op = "read" /\ RegOf(port) = MM67_ISTAT) => ret = regs[MM67_ISTAT]
    /\ (prev[MM67_ISTAT] = 0 /\ regs[MM67_ISTAT] # 0) => (op = "tick" /\ f # 0)

\* a status with bits set was written with 0xFF and reads 0x00
C6_Witness ==
    /\ op = "write"
    /\ RegOf(port) = MM67_ISTAT
    /\ val = 255
    /\ prev[MM67_ISTAT] # 0
    /\ regs[MM67_ISTAT] = 0

\* a status with bits set was written with 0x00 and reads 0x00
C6_WitnessZero ==
    /\ op = "write"
    /\ RegOf(port) = MM67_ISTAT
    /\ val = 0
    /\ prev[MM67_ISTAT] # 0
    /\ regs[MM67_ISTAT] = 0

\* C7: a handler that leaves a status bit cleared which was set before is a
\* write to index 16 or the reset-RAM command (index 19); ticks and reads keep
\* every status bit that was set.
C7_StatusSticky ==
    /\ op \in {"tick", "read"} => Bits(prev[MM67_ISTAT]) \subseteq Bits(regs[MM67_ISTAT])
    /\ ~(Bits(prev[MM67_ISTAT]) \subseteq Bits(regs[MM67_ISTAT])) =>
          (op = "write" /\ RegOf(port) \in {MM67_ISTAT, MM67_RSTRAM})

\* a tick added a bit to a status that already had another bit set
C7_Witness ==
    /\ op = "tick"
    /\ prev[MM67_ISTAT] # 0
    /\ Bits(prev[MM67_ISTAT]) \subseteq Bits(regs[MM67_ISTAT])
    /\ regs[MM67_ISTAT] # prev[MM67_ISTAT]

\* C8: every bit other than compare that a tick records, and so every such bit
\* it newly sets in the status register, is set in the interrupt control register.
C8_EventsGatedByControl ==
    op = "tick" =>
        /\ (Bits(f) \ {MM67INT_COMPARE}) \subseteq Bits(prev[MM67_ICTRL])
        /\ ((Bits(regs[MM67_ISTAT]) \ Bits(prev[MM67_ISTAT])) \ {MM67INT_COMPARE})
               \subseteq Bits(prev[MM67_ICTRL])
        /\ prev[MM67_ICTRL] = 0 => Bits(regs[MM67_ISTAT]) \ Bits(prev[MM67_ISTAT]) \subseteq {MM67INT_COMPARE}

\* the hour rolled over with only second and minute enabled: no hour bit
C8_Witness ==
    /\ op = "tick"
    /\ prev[MM67_ICTRL] = 12
    /\ prev[MM67_MIN] = BcdOf(59)
    /\ prev[MM67_SEC] = BcdOf(59)
    /\ regs[MM67_HOUR] # prev[MM67_HOUR]
    /\ f = MM67INT_MIN

\* C9: in a tick the bit of every event class that both occurred and is enabled
\* in the control mask is set in the status register afterwards: the second
\* event in every tick, the minute event when the second rolled over from 59.
C9_AllEventsRecorded ==
    op = "tick" =>
        /\ Bit(prev[MM67_ICTRL], MM67INT_SEC) => Bit(regs[MM67_ISTAT], MM67INT_SEC)
        /\ (Bit(prev[MM67_ICTRL], MM67INT_MIN) /\ prev[MM67_SEC] = BcdOf(59)) =>
              Bit(regs[MM67_ISTAT], MM67INT_MIN)

\* C10: the line is raised, with mask 1 << irq, exactly in a tick that recorded
\* an event while a line is configured, whether or not the event's status bit
\* was already set; reads and writes raise nothing.
C10_RaiseIffEvent ==
    raised = (IF op = "tick" /\ f # 0 /\ irq # NoIrq THEN 2 ^ irq ELSE 0)

\* a tick raised the line for an event whose status bit was already set
C10_Witness ==
    /\ op = "tick"
    /\ f # 0
    /\ Bits(f) \subseteq Bits(prev[MM67_ISTAT])
    /\ raised = 32

\* a tick recorded an event with no line configured and raised nothing
C10_WitnessNoLine ==
    /\ op = "tick"
    /\ f # 0
    /\ irq = NoIrq
    /\ raised = 0

(***************************************************************************)
(* Register access claims.                                                 *)
(***************************************************************************)
\* a uint16_t port k further on
PortAdd(p, k) == (p + k) % 65536

\* the 32 ports of the block, the nearest and the farthest port below it, and
\* the two ends of port space
AliasPorts == (PortBase..(PortBase + 31)) \cup {PortBase - 32, PortBase - 1, 0, 65535}

\* bytes written: zero, invalid BCD 0x5A, the don't-care marker, all ones
TestVals == {0, 90, MM67_AL_DONTCARE, 255}

\* the ports of the block handed to io_sethandler
InSpan(p) == p \in PortBase..(PortBase + MM67_REGS - 1)

\* C11: for every port p, a read at p + 32 returns what a read at p returns and
\* a write at p + 32 leaves the register file as the same write at p does; the
\* read or write that just ran had the result its alias 32 ports on would have.
C11_PortAliasing ==
    /\ \A p \in AliasPorts : mm67_read(regs, PortAdd(p, 32)) = mm67_read(regs, p)
    /\ \A p \in AliasPorts, v \in {90} :
          mm67_write(regs, PortAdd(p, 32), v, tm) = mm67_write(regs, p, v, tm)
    /\ op = "read" => ret = mm67_read(prev, PortAdd(port, 32))
    /\ op = "write" => regs = mm67_write(prev, PortAdd(port, 32), val, tm)

\* a byte written through base+32 landed in register 0 and reads back at base+32
C11_Witness ==
    /\ op = "read"
    /\ port = PortBase + 32
    /\ ret = 7
    /\ regs[MM67_MSEC] = 7
    /\ mm67_read(regs, PortBase) = 7

\* C12: a read of a port outside the 32-port block returns 0xFF and a write to
\* such a port leaves every register unchanged.
C12_OutOfSpanIgnored ==
    /\ (op = "read" /\ ~InSpan(port)) => ret = 255
    /\ (op = "write" /\ ~InSpan(port)) => regs = prev
    /\ \A p \in AliasPorts : ~InSpan(p) => mm67_read(regs, p) = 255

\* the indices beyond the go command
HighRegs == (MM67_GOCMD + 1)..(MM67_REGS - 1)

\* C13 as stated: a write of any value to an index beyond 21 (22 to 31) leaves
\* the whole register file as it was.
C13_HighWriteNoOp ==
    (op = "write" /\ RegOf(port) \in HighRegs) => regs = prev

\* C13 amended: a write of v to an index beyond 21 (22 to 31) stores v in that
\* register and changes no other register.
C13_HighWriteStores ==
    /\ (op = "write" /\ RegOf(port) \in HighRegs) =>
          regs = [prev EXCEPT ![RegOf(port)] = val]
    /\ \A i \in HighRegs, v \in TestVals :
          mm67_write(regs, PortBase + i, v, tm) = [regs EXCEPT ![i] = v]

\* 0x5A written to index 22 is held by register 22, which was 0x00 before
C13_Witness ==
    /\ op = "write"
    /\ RegOf(port) = 22
    /\ val = 90
    /\ prev[22] = 0
    /\ regs[22] = 90
    /\ regs # prev

\* the indices mm67_write stores into: all but status and the three commands
StoredRegs == RegIdx \ {MM67_ISTAT, MM67_RSTCTR, MM67_RSTRAM, MM67_GOCMD}

\* C14: a write of byte v to an index other than 16, 18, 19 and 21 stores v as
\* it is (invalid BCD and the don't-care marker included), changes no other
\* register, and a read of the same port right after returns v.
C14_WriteStoresVerbatim ==
    /\ (op = "write" /\ RegOf(port) \in StoredRegs) =>
          /\ regs = [prev EXCEPT ![RegOf(port)] = val]
          /\ mm67_read(regs, port) = val
    /\ \A i \in StoredRegs, v \in {90, MM67_AL_DONTCARE} :
          LET w == mm67_write(regs, PortBase + i, v, tm)
          IN  /\ w = [regs EXCEPT ![i] = v]
              /\ mm67_read(w, PortBase + i) = v

\* 0xFF, not BCD, written to the seconds register is what the register holds
C14_Witness ==
    /\ op = "write"
    /\ port = PortBase + MM67_SEC
    /\ val = 255
    /\ prev[MM67_SEC] # 255
    /\ regs[MM67_SEC] = 255
    /\ mm67_read(regs, port) = 255

\* C15: a read of any port returns the stored byte and changes nothing: every
\* register, interrupt status included, is as before the read, and no interrupt
\* is raised.
C15_ReadNoSideEffect ==
    op = "read" =>
        /\ regs = prev
        /\ raised = 0
        /\ ret = mm67_read(regs, port)

\* the status register is read while it holds event bits and still holds them
C15_Witness ==
    /\ op = "read"
    /\ port = PortBase + MM67_ISTAT
    /\ ret # 0
    /\ regs[MM67_ISTAT] = ret
    /\ irq # NoIrq

\* the time fields: seconds to month
TimeRegs == MM67_SEC..MM67_MON

\* every time field of register file r, as a read returns it, is valid BCD
TimeFieldsBCD(r) == \A i \in TimeRegs : ValidBCD(mm67_read(r, PortBase + i))

\* a write that puts a byte that is not BCD into a time field
BadTimeWrite == op = "write" /\ RegOf(port) \in TimeRegs /\ ~ValidBCD(val)

\* C16 as stated: in every reachable state each time field (sec, min, hour,
\* day-of-week, day-of-month, month) returned by a read is valid BCD.
C16_TimeFieldsAlwaysBCD == TimeFieldsBCD(regs)

\* C16 amended: the time fields are valid BCD after construction, and every
\* reset, go, tick and register write keeps them valid BCD, except a write
\* that stores a byte that is not valid BCD in a time register (2..7).
C16_TimeFieldsStayBCD ==
    /\ op = "init" => TimeFieldsBCD(regs)
    /\ (op # "init" /\ TimeFieldsBCD(prev) /\ ~BadTimeWrite) => TimeFieldsBCD(regs)

\* seconds were written as 0x99, valid BCD, and the tick that followed left
\* valid BCD in every time field
C16_Witness ==
    /\ op = "tick"
    /\ prev[MM67_SEC] = 153
    /\ TimeFieldsBCD(prev)
    /\ TimeFieldsBCD(regs)
    /\ regs[MM67_SEC] # 153

(***************************************************************************)
(* Commands.                                                               *)
(***************************************************************************)
\* the registers mm67_time_set seeds: sub-second counters, time fields, year
SeededRegs == (MM67_MSEC..MM67_MON) \cup {year_reg}

\* what seeding from host time t puts in seeded register i
SeedOf(t, i) ==
    CASE i = MM67_SEC  -> BcdOf(t.sec)
      [] i = MM67_MIN  -> BcdOf(t.min)
      [] i = MM67_HOUR -> BcdOf(t.hour)
      [] i = MM67_DOW  -> BcdOf(t.wday + 1)
      [] i = MM67_DOM  -> BcdOf(t.mday)
      [] i = MM67_MON  -> BcdOf(t.mon + 1)
      [] i = year_reg  -> BcdOf((t.year - 80) % 100)
      [] OTHER         -> 0

\* C17: after the reset-RAM command (a write of any value to index 19), and
\* after the reset hook run on any state, registers 2..7 and the year slot 14
\* hold the BCD encoding of host time and every other register is 0x00.
C17_ResetRamClearsAndSeeds ==
    /\ (op = "write" /\ RegOf(port) = MM67_RSTRAM) =>
          regs = [i \in RegIdx |-> SeedOf(tm, i)]
    /\ \A t \in CmdTimes : mm67_reset(regs, t) = [i \in RegIdx |-> SeedOf(t, i)]

\* reset RAM was written while status, control and an alarm setpoint were set:
\* they are 0x00 afterwards and the time is the host's
C17_Witness ==
    /\ op = "write"
    /\ RegOf(port) = MM67_RSTRAM
    /\ prev[MM67_ISTAT] # 0
    /\ prev[MM67_ICTRL] # 0
    /\ prev[MM67_AL_SEC] # 0
    /\ regs[MM67_ISTAT] = 0
    /\ regs[MM67_ICTRL] = 0
    /\ regs[MM67_AL_SEC] = 0
    /\ regs[MM67_SEC] = BcdOf(tm.sec)
    /\ regs[MM67_SEC] # prev[MM67_SEC]

\* C18: the go command (a write of any value to index 21) gives registers 0..7
\* and the year slot 14 their host-time values and leaves every other register
\* (alarm 8..13 and 15, status, control, 18..31) as it was; the byte written
\* is not stored.
C18_GoSeedsTimeOnly ==
    /\ (op = "write" /\ RegOf(port) = MM67_GOCMD) =>
          regs = [i \in RegIdx |-> IF i \in SeededRegs THEN SeedOf(tm, i) ELSE prev[i]]
    /\ \A t \in CmdTimes :
          mm67_start(regs, t) =
              [i \in RegIdx |-> IF i \in SeededRegs THEN SeedOf(t, i) ELSE regs[i]]

\* go was written while status, control, an alarm setpoint and the sub-second
\* registers were set: the time is the host's, the sub-second registers are 0,
\* the rest is kept and index 21 does not hold the byte written
C18_Witness ==
    /\ op = "write"
    /\ RegOf(port) = MM67_GOCMD
    /\ prev[MM67_MSEC] # 0
    /\ regs[MM67_MSEC] = 0
    /\ regs[MM67_SEC] = BcdOf(tm.sec)
    /\ regs[MM67_SEC] # prev[MM67_SEC]
    /\ prev[MM67_ISTAT] # 0
    /\ regs[MM67_ISTAT] = prev[MM67_ISTAT]
    /\ regs[MM67_ICTRL] = 12
    /\ regs[MM67_AL_SEC] = MM67_AL_DONTCARE
    /\ regs[MM67_GOCMD] # val

\* C19: the reset-counters command (a write of any value to index 18) zeroes
\* registers 0 and 1 and changes nothing else: time fields, alarm, status,
\* control and index 18 itself are as before, the byte written is not stored.
C19_ResetCountersOnly ==
    /\ (op = "write" /\ RegOf(port) = MM67_RSTCTR) =>
          regs = [prev EXCEPT ![MM67_MSEC] = 0, ![MM67_HUNTEN] = 0]
    /\ \A v \in TestVals :
          mm67_write(regs, PortBase + MM67_RSTCTR, v, tm) =
              [regs EXCEPT ![MM67_MSEC] = 0, ![MM67_HUNTEN] = 0]

\* reset counters was written while both sub-second registers held 0x25 and
\* the status register held event bits
C19_Witness ==
    /\ op = "write"
    /\ RegOf(port) = MM67_RSTCTR
    /\ prev[MM67_MSEC] = 37
    /\ prev[MM67_HUNTEN] = 37
    /\ regs[MM67_MSEC] = 0
    /\ regs[MM67_HUNTEN] = 0
    /\ regs[MM67_SEC] = prev[MM67_SEC]
    /\ regs[MM67_SEC] # 0
    /\ regs[MM67_ISTAT] = prev[MM67_ISTAT]
    /\ regs[MM67_ISTAT] # 0
    /\ regs[MM67_RSTCTR] # val

(***************************************************************************)
(* Construction.                                                           *)
(***************************************************************************)
\* C20: when the device state cannot be allocated, leading_edge_rtc_init
\* returns NULL having registered no port handler and bound no tick callback,
\* so no read, write or tick of the device can follow.
C20_AllocFailureAbsentDevice ==
    dev = "null" =>
        /\ ~io_bound
        /\ ~nvr_bound
        /\ op = "init"
        /\ nticks = 0
        /\ nwrites = 0
        /\ ~ENABLED Next

\* the allocation failed: nothing is registered and no handler has run
C20_Witness ==
    /\ dev = "null"
    /\ op = "init"
    /\ ~io_bound
    /\ ~nvr_bound
    /\ ~ENABLED (Tick \/ Read \/ Write)

(***************************************************************************)
(* BCD arithmetic.                                                         *)
(***************************************************************************)
\* the bytes that are valid two-digit BCD, 0x00 to 0x99
BcdBytes == {b \in Byte : ValidBCD(b)}

\* decimal successor of a valid BCD byte, 99 wrapping to 00
BcdSucc(v) == BcdOf((BcdValue(v) + 1) % 100)

RoundTripTimes ==
    CmdTimes \cup { HostTime(1980, 1, 1, 2, 0, 0, 0),
                    HostTime(2079, 12, 31, 0, 23, 59, 59) }

\* a struct tm with nothing in it yet
BlankTime == [sec |-> 0, min |-> 0, hour |-> 0, wday |-> 0, mday |-> 0, mon |-> 0, year |-> 0]

\* the last handler seeded the registers from host time tm
JustSeeded ==
    \/ op = "init" /\ dev = "live"
    \/ op = "write" /\ RegOf(port) \in {MM67_RSTRAM, MM67_GOCMD}

\* C22: for a host time of the years 1980..2079, seeding the registers from it
\* (weekday + 1, month + 1, BCD of (year - 1980) mod 100 in register 14,
\* sub-second registers 0) and decoding them with mm67_time_get gives back the
\* same second, minute, hour, weekday, day, month and year.
C22_HostTimeRoundTrip ==
    /\ \A t \in RoundTripTimes :
          LET r == mm67_time_set(regs, t)
          IN  /\ mm67_time_get(r, BlankTime) = t
              /\ r[MM67_MSEC] = 0 /\ r[MM67_HUNTEN] = 0
              /\ r[MM67_DOW] = BcdOf(t.wday + 1)
              /\ r[MM67_MON] = BcdOf(t.mon + 1)
              /\ r[year_reg] = BcdOf((t.year + 1900 - 1980) % 100)
    /\ JustSeeded =>
          /\ tm.year + 1900 \in 1980..2079
          /\ mm67_time_get(regs, BlankTime) = tm
          /\ regs[MM67_MSEC] = 0 /\ regs[MM67_HUNTEN] = 0

\* the registers were seeded from the last second of 2079 and decode to it
C22_Witness ==
    /\ op = "init"
    /\ dev = "live"
    /\ tm = HostTime(2079, 12, 31, 0, 23, 59, 59)
    /\ regs[year_reg] = 153
    /\ regs[MM67_DOW] = 1
    /\ mm67_time_get(regs, BlankTime) = tm

\* a write aimed at a time register or at the year slot
TimeSlotWrite == op = "write" /\ RegOf(port) \in (TimeRegs \cup {year_reg})

\* C23: after a reset with a host time of 1980..2079 the time fields encode a
\* valid calendar instant (sec <= 59, min <= 59, hour <= 23, day-of-week 1..7,
\* month 1..12, day-of-month within the month of that year, year 00..99, all
\* valid BCD), and every tick, read, go, reset and write that does not target
\* registers 2..7 or 14 leaves them encoding a valid calendar instant.
C23_TimeFieldsValidInstant ==
    /\ (op = "init" /\ dev = "live") => ValidInstant(regs)
    /\ (op # "init" /\ ValidInstant(prev) /\ ~TimeSlotWrite) => ValidInstant(regs)

\* the control mask was written, then a tick took 2079-12-31 23:59:59 to the
\* first second of stored year 00
C23_Witness ==
    /\ op = "tick"
    /\ nwrites = 1
    /\ regs[MM67_ICTRL] = 12
    /\ prev[year_reg] = 153
    /\ LastSecond(prev)
    /\ regs[year_reg] = 0
    /\ regs[MM67_MON] = 1
    /\ regs[MM67_DOM] = 1
    /\ ValidInstant(regs)

(***************************************************************************)
(* Tick frame and events.                                                  *)
(***************************************************************************)
\* the registers a tick may change: time fields, year slot, interrupt status
TickRegs == TimeRegs \cup {year_reg, MM67_ISTAT}

\* C24: a tick changes no register other than the time fields 2..7, the year
\* slot 14 and interrupt status 16; registers 0..1, 8..13, 15, 17 and 18..31
\* have the same value after the tick as before it.
C24_TickFrame ==
    op = "tick" => \A i \in RegIdx \ TickRegs : regs[i] = prev[i]

\* a year-end tick changed time, year and status while the sub-second
\* registers, the alarm setpoints and the control mask, all non-zero, stayed
C24_Witness ==
    /\ op = "tick"
    /\ prev[MM67_MSEC] = 37
    /\ regs[MM67_MSEC] = 37
    /\ regs[MM67_HUNTEN] = 37
    /\ regs[MM67_AL_SEC] = MM67_AL_DONTCARE
    /\ regs[MM67_AL_MON] = MM67_AL_DONTCARE
    /\ regs[MM67_ICTRL] = 12
    /\ regs[MM67_ISTAT] # prev[MM67_ISTAT]
    /\ regs[MM67_SEC] # prev[MM67_SEC]
    /\ regs[year_reg] # prev[year_reg]

\* C25: after construction and reset with a valid host time, as long as
\* software has written no register, interrupt status is 0x00 and no tick
\* records an event or raises an interrupt: the zeroed control mask enables no
\* periodic event and the zeroed alarm block never compares equal.
C25_QuietAfterReset ==
    (dev = "live" /\ nwrites = 0) =>
        /\ regs[MM67_ISTAT] = 0
        /\ regs[MM67_ICTRL] = 0
        /\ f = 0
        /\ raised = 0
        /\ op = "tick" => ~TickAlarmMatch(regs)

\* a tick reached midnight with day-of-month equal to the year in slot 14:
\* seconds, minutes, hours and day-of-month all match the alarm block, only
\* the month setpoint 0x00 differs, and the status stays 0x00
C25_Witness ==
    /\ op = "tick"
    /\ nwrites = 0
    /\ SecOfDay(regs) = 0
    /\ regs[MM67_DOM] = regs[MM67_AL_DOM]
    /\ regs[MM67_MON] # regs[MM67_AL_MON]
    /\ regs[MM67_ISTAT] = 0
    /\ f = 0

\* the periodic event bits, in the order the tick tests them
PeriodicBits ==
    {MM67INT_SEC, MM67INT_MIN, MM67INT_HOUR, MM67INT_DAY, MM67INT_WEEK, MM67INT_MON}

\* the counters that roll over in a tick from valid instant r, by the calendar
RolledOver(r) ==
    {MM67INT_SEC}
    \cup (IF BcdValue(r[MM67_SEC]) = 59 THEN {MM67INT_MIN} ELSE {})
    \cup (IF SecOfDay(r) % 3600 = 3599 THEN {MM67INT_HOUR} ELSE {})
    \cup (IF LastSecond(r) THEN {MM67INT_DAY} ELSE {})
    \cup (IF LastSecond(r) /\ BcdValue(r[MM67_DOW]) = 7 THEN {MM67INT_WEEK} ELSE {})
    \cup (IF LastSecond(r) /\ BcdValue(r[MM67_DOM]) =
                 CalMonthLen(BcdValue(r[MM67_MON]), CalYear(r))
          THEN {MM67INT_MON} ELSE {})

\* the last of a set of event bits in the order of the tick, 0 for none
LastEvent(S) == IF S = {} THEN 0 ELSE CHOOSE m \in S : \A n \in S : n <= m

\* C26: the event value f of a tick holds at most one of the periodic bits
\* second, minute, hour, day, week, month (compare may come on top) and never
\* the tenth bit 0x02; of the counters that rolled over in the tick only the
\* last one in that order whose control bit is set is in f.
C26_OnePeriodicEvent ==
    op = "tick" =>
        /\ ~Bit(f, MM67INT_TENTH)
        /\ Cardinality({m \in PeriodicBits : Bit(f, m)}) <= 1
        /\ ValidInstant(prev) =>
              f - (f % 2) = LastEvent({m \in RolledOver(prev) : Bit(prev[MM67_ICTRL], m)})

\* all six counters rolled over with every control bit set: month alone is in f
C26_Witness ==
    /\ op = "tick"
    /\ ValidInstant(prev)
    /\ prev[MM67_ICTRL] = 255
    /\ RolledOver(prev) = PeriodicBits
    /\ Bit(f, MM67INT_MON)
    /\ ~Bit(f, MM67INT_SEC)
    /\ ~Bit(f, MM67INT_WEEK)

(***************************************************************************)
(* Teardown.                                                               *)
(***************************************************************************)
\* C27: after Close none of the registrations of leading_edge_rtc_init is
\* left: no port handler is registered, the NVR backend holds no callback of
\* the device, and no read, write or tick runs on the freed device state.
C27_CloseUndoesRegistrations ==
    dev = "freed" =>
        /\ ~io_bound
        /\ ~nvr_bound
        /\ op = "close"

=============================================================================
